---- MODULE Spec2Model ----
(***************************************************************************)
(* Model of src/pages/EarthAfricaPage.tsx: the camera-focus controller    *)
(* (CameraRig), the page state written by the pin callbacks (hoverCity,    *)
(* hoverPos2D, focusTarget), the route build of RoutesWow (arcs, pins) and *)
(* the per-frame dash scroll.                                              *)
(*                                                                         *)
(* Numbers.  Lengths are fixed-point, one unit = 1/Unit (0.001); every     *)
(* floating-point product is rounded to the nearest unit, as a double      *)
(* rounds to the nearest representable value.  A frame's deltaTime is      *)
(* counted in thirds of a second, the values for which                     *)
(* Math.pow(0.001, delta) = 10^-n is an exact decimal.                     *)
(*                                                                         *)
(* The orbit widget (drei OrbitControls) is an external collaborator.  Its  *)
(* update() is recorded as a call (updateCalled); what update() itself     *)
(* does to the camera (re-deriving the position from the target, keeping   *)
(* the distance within minDistance..maxDistance) is the widget's, not the  *)
(* controller's, and is outside the model.  The user's drag or zoom is the *)
(* action OrbitDrag, which moves the live camera only (enablePan is        *)
(* false).                                                                 *)
(*                                                                         *)
(* A click is modelled with the render it causes: handleClickCity sets the *)
(* page's focusTarget, the page renders again and the CameraRig effect of  *)
(* that render copies the new target into current.current.                 *)
(***************************************************************************)
EXTENDS Integers, Sequences, FiniteSets, TLC

(* ---------------- bounds of the model ---------------- *)
\* largest deltaTime of one frame, in thirds of a second
MaxDelta == 2
\* horizon of the animation clock, in thirds of a second
MaxElapsed == 7
\* number of pin clicks explored
MaxSelects == 2
\* longest route handed to the route build
MaxRouteLen == 4
\* frame ticks of positive deltaTime within which every convergence completes
\* (each such tick leaves at most a tenth of the distance: 1 - alpha <= 0.1)
ConvergeTicks == 3

(* ---------------- fixed-point arithmetic ---------------- *)
Unit == 10 ^ 3
\* scale of an interpolation factor: 1.0 = AlphaScale
AlphaScale == 10 ^ 4
\* null, for a name, for a FocusTarget and for a screen point
NoName == "null"
NoTarget == [id |-> 0, camPos |-> <<0, 0, 0>>, lookAt |-> <<0, 0, 0>>]
NoPoint == <<>>

\* n / d rounded to the nearest integer (d > 0)
RoundDiv(n, d) == (2 * n + d) \div (2 * d)

RECURSIVE SqrtIter(_, _, _)
SqrtIter(n, lo, hi) ==
    IF lo >= hi THEN lo
    ELSE LET mid == (lo + hi + 1) \div 2
         IN IF mid * mid <= n THEN SqrtIter(n, mid, hi)
                              ELSE SqrtIter(n, lo, mid - 1)
\* Math.sqrt on a non-negative integer below 2^30, rounded down
Sqrt(n) == SqrtIter(n, 0, 2 ^ 15)

(* ---------------- THREE.Vector3 ---------------- *)
Dot(a, b) == a[1] * b[1] + a[2] * b[2] + a[3] * b[3]
Sub(a, b) == <<a[1] - b[1], a[2] - b[2], a[3] - b[3]>>
\* Vector3.length(), in units
Length(a) == Sqrt(Dot(a, a))
\* Vector3.multiplyScalar(s) with s given in 1/Unit
MultiplyScalar(a, s) ==
    <<RoundDiv(a[1] * s, Unit), RoundDiv(a[2] * s, Unit), RoundDiv(a[3] * s, Unit)>>
\* Vector3.normalize(): divideScalar(length || 1); the result has length Unit
Normalize(a) ==
    LET len == IF Length(a) = 0 THEN Unit ELSE Length(a)
    IN <<RoundDiv(a[1] * Unit, len), RoundDiv(a[2] * Unit, len), RoundDiv(a[3] * Unit, len)>>
\* squared Vector3.distanceTo(); d < e  <=>  d^2 < e^2 for non-negative d, e
DistSq(a, b) == Dot(Sub(a, b), Sub(a, b))
\* Vector3.lerp(v, alpha): this += (v - this) * alpha, alpha in 1/AlphaScale
Lerp(cur, v, alpha) ==
    <<cur[1] + RoundDiv((v[1] - cur[1]) * alpha, AlphaScale),
      cur[2] + RoundDiv((v[2] - cur[2]) * alpha, AlphaScale),
      cur[3] + RoundDiv((v[3] - cur[3]) * alpha, AlphaScale)>>

(* ---------------- static data: CITY, ROUTE ---------------- *)
\* the names of the CITY table kept by the model
Cities == {"Lome", "Montreal", "Dubai"}
\* a route name that is absent from the CITY table
Unresolved == "Nowhere"
Names == Cities \cup {Unresolved}
\* CITY[name]: truthy exactly for the names of the table
Resolved(name) == name \in Cities
\* the ROUTE constant, cut down to a closed tour over two cities of the model
ROUTE == <<"Lome", "Montreal", "Lome">>
\* latLonToVec3(c.lat, c.lon, radius * 1.012) of each city, radius = 1.25, in units
PinPos(name) ==
    CASE name = "Lome" -> <<1257, 135, -27>>
      [] name = "Montreal" -> <<251, 902, 850>>
      [] name = "Dubai" -> <<652, 539, -941>>

(* ---------------- program constants ---------------- *)
\* distance < 0.01
Eps == 10
\* dir.multiplyScalar(3.2)
CamDistance == 3200
\* pos.multiplyScalar(0.85)
InwardFactor == 850
\* dashOffset -= delta * 0.42
DashRate == 420
\* phase: i * 0.055
PhaseStep == 55
\* Canvas camera={{ position: [0, 0.2, 3.4] }}
InitialCamera == <<0, 200, 3400>>
\* OrbitControls.target starts at the origin
InitialOrbitTarget == <<0, 0, 0>>
\* where a manual drag of the orbit widget may leave the camera
DragPositions == {<<3400, 0, 0>>, <<0, 0, -3400>>}
\* event.clientX / clientY of a pointer move
ScreenPoints == {<<10, 20>>}

VARIABLES
    route,        \* the route handed to the route build
    built,        \* whether the useMemo callback of RoutesWow has run
    data,         \* useMemo result of RoutesWow: [arcs, pins]
    dashOffset,   \* dashMats.current[i].dashOffset, one per arc
    elapsed,      \* state.clock.elapsedTime, in thirds of a second
    cameraPos,    \* camera.position
    orbitTarget,  \* controls.target
    current,      \* CameraRig: current.current (the working focus target)
    focusTarget,  \* EarthAfricaPage: focusTarget state
    effectDep,    \* the target the CameraRig effect last ran for
    hoverCity,    \* EarthAfricaPage: hoverCity state
    hoverPos2D,   \* EarthAfricaPage: hoverPos2D state
    updateCalled, \* whether the last frame tick called controls.update()
    selects,      \* number of pin clicks so far (identity of the next FocusTarget object)
    disturbed,    \* whether a manual drag moved the camera since the last click
    lastHover,    \* the last pin hover event: [op, name, settled], op "over" or "out";
                  \* settled: it was handled while Idle with a page focusTarget set
    lastSelect,   \* the last click: [name, busy], busy = the controller was Converging
    convTicks     \* frame ticks of positive deltaTime spent Converging since the last
                  \* click or drag; 0 when Idle

vars == <<route, built, data, dashOffset, elapsed, cameraPos, orbitTarget, current, focusTarget,
          effectDep, hoverCity, hoverPos2D, updateCalled, selects, disturbed, lastHover, lastSelect,
          convTicks>>

(* ---------------- RoutesWow: the route build (useMemo data) ---------------- *)
\* slip: phase: 0.055, the index left out
PhaseFlat(i) == PhaseStep
\* phase: i * 0.055, i the 0-based index of the pair in the route
Phase(i) == i * PhaseStep
\* slip: if (!A) continue;
SkipPairFirstOnly(r, i) == ~Resolved(r[i + 1])
\* if (!A || !B) continue;
SkipPair(r, i) == ~Resolved(r[i + 1]) \/ ~Resolved(r[i + 2])
\* the arc pushed for the pair (r[i], r[i+1]), 0-based i; its curve runs between the
\* projections of the two names and is sampled from them alone
Arc(r, i) ==
    [key |-> <<r[i + 1], r[i + 2]>>, from |-> r[i + 1], to |-> r[i + 2],
     index |-> i, phase |-> Phase(i)]
RECURSIVE ArcLoop(_, _, _)
\* for (let i = 0; i < ROUTE.length - 1; i++) { ... arcs.push(...) }
ArcLoop(r, i, arcs) ==
    IF i >= Len(r) - 1 THEN arcs
    ELSE IF SkipPair(r, i) THEN ArcLoop(r, i + 1, arcs)
    ELSE ArcLoop(r, i + 1, Append(arcs, Arc(r, i)))
BuildArcs(r) == ArcLoop(r, 0, <<>>)
RECURSIVE Distinct(_, _, _)
\* Array.from(new Set(ROUTE)): the names in order of first occurrence
Distinct(r, i, acc) ==
    IF i > Len(r) THEN acc
    ELSE IF \E j \in 1..Len(acc) : acc[j] = r[i] THEN Distinct(r, i + 1, acc)
    ELSE Distinct(r, i + 1, Append(acc, r[i]))
\* .map(name => CITY[name] ? {name, pos} : null).filter(Boolean)
BuildPins(r) ==
    LET names == SelectSeq(Distinct(r, 1, <<>>), Resolved)
    IN [i \in 1..Len(names) |-> [name |-> names[i], pos |-> PinPos(names[i])]]
\* A.lat / B.lat is read for every pair that is not skipped: a TypeError when the
\* name did not resolve
BuildThrows(r) ==
    \E i \in 0..(Len(r) - 2) :
        ~SkipPair(r, i) /\ (~Resolved(r[i + 1]) \/ ~Resolved(r[i + 2]))
BuildData(r) == [arcs |-> BuildArcs(r), pins |-> BuildPins(r), threw |-> BuildThrows(r)]

(* ---------------- EarthAfricaPage: pin callbacks ---------------- *)
\* handleClickCity: the FocusTarget object made for a click on a pin at pos
ClickTarget(pos, id) ==
    LET dir == Normalize(pos)
    IN [id |-> id, camPos |-> MultiplyScalar(dir, CamDistance),
        lookAt |-> MultiplyScalar(pos, InwardFactor)]
\* slip: if (target && !current.current) current.current = target
EffectKeepsFirst(target, dep, cur) ==
    IF target # dep /\ target # NoTarget /\ cur = NoTarget THEN target ELSE cur
\* slip: the effect without its dependency list, run at every render
EffectEveryRender(target, dep, cur) ==
    IF target # NoTarget THEN target ELSE cur
\* CameraRig useEffect(() => { if (target) current.current = target }, [target]),
\* run at the commit of a render: only when the dependency changed
EffectCurrent(target, dep, cur) ==
    IF target # dep /\ target # NoTarget THEN target ELSE cur
\* slip: if (name) setHoverCity(name)
HoverNameSticky(name) == IF name = NoName THEN hoverCity ELSE name
\* onHoverCity: setHoverCity(name)
HoverName(name) == name
\* onHoverCity: if (!name) setHoverPos2D(null)
HoverPos(name, pos2D) == IF name = NoName THEN NoPoint ELSE pos2D

(* ---------------- CameraRig: useFrame ---------------- *)
\* Math.pow(0.001, delta), in 1/AlphaScale, delta in thirds of a second
Pow001(delta) == AlphaScale \div (10 ^ delta)
\* slip: Math.pow(0.001, delta) - 1
AlphaNegated(delta) == Pow001(delta) - AlphaScale
\* 1 - Math.pow(0.001, delta)
Alpha(delta) == AlphaScale - Pow001(delta)
\* camera.position.lerp(t.camPos, alpha)
LerpCamera(pos, t, delta) == Lerp(pos, t.camPos, Alpha(delta))
\* controls.target.lerp(t.lookAt, alpha)
LerpLookAt(tgt, t, delta) == Lerp(tgt, t.lookAt, Alpha(delta))
\* camera.position.distanceTo(t.camPos) < 0.01
PosClose(pos, t) == DistSq(pos, t.camPos) < Eps * Eps
\* slip: controls.target.distanceTo(t.camPos) < 0.01
TgtCloseToCamPos(tgt, t) == DistSq(tgt, t.camPos) < Eps * Eps
\* controls && controls.target.distanceTo(t.lookAt) < 0.01
TgtClose(tgt, t) == DistSq(tgt, t.lookAt) < Eps * Eps
\* slip: if (posClose || tgtClose) current.current = null
StopEither(pos, tgt, t) == PosClose(pos, t) \/ TgtClose(tgt, t)
\* if (posClose && tgtClose) current.current = null
StopNow(pos, tgt, t) == PosClose(pos, t) /\ TgtClose(tgt, t)
\* slip: the early return left out
RigAlways(t) == TRUE
\* if (!t) return;
RigActive(t) == t # NoTarget

(* ---------------- RoutesWow: useFrame ---------------- *)
\* slip: m.dashOffset -= 0.42, the frame's delta left out
DashStepPerFrame(delta) == DashRate
\* delta * 0.42, delta in thirds of a second
DashStep(delta) == (DashRate * delta) \div 3
\* for each dash material: m.dashOffset -= delta * 0.42
ScrollDashes(offsets, delta) ==
    [i \in DOMAIN offsets |-> offsets[i] - DashStep(delta)]

(* ---------------- initial state: the page after mount ---------------- *)
NoDashes(d) == [i \in 1..Len(d.arcs) |-> 0]

PageInit ==
    /\ elapsed = 0
    /\ cameraPos = InitialCamera
    /\ orbitTarget = InitialOrbitTarget
    /\ current = NoTarget
    /\ focusTarget = NoTarget
    /\ effectDep = NoTarget
    /\ hoverCity = NoName
    /\ hoverPos2D = NoPoint
    /\ updateCalled = FALSE
    /\ selects = 0
    /\ disturbed = FALSE
    /\ lastHover = [op |-> "none", name |-> NoName, settled |-> FALSE]
    /\ lastSelect = [name |-> NoName, busy |-> FALSE]
    /\ convTicks = 0

Init ==
    /\ route = ROUTE
    /\ built = TRUE
    /\ data = BuildData(ROUTE)
    /\ dashOffset = NoDashes(BuildData(ROUTE))
    /\ PageInit

(* ---------------- actions ---------------- *)
\* onClick of pin i -> onClickCity(p.name, p.pos) -> handleClickCity, then the
\* re-render it causes and the CameraRig effect of that render
ClickPin(i) ==
    /\ selects < MaxSelects
    /\ LET pin == data.pins[i]
           target == ClickTarget(pin.pos, selects + 1)
       IN /\ focusTarget' = target
          /\ current' = EffectCurrent(target, effectDep, current)
          /\ effectDep' = target
          /\ lastSelect' = [name |-> pin.name, busy |-> current # NoTarget]
    /\ selects' = selects + 1
    /\ convTicks' = 0
    /\ disturbed' = FALSE
    /\ UNCHANGED <<route, built, data, dashOffset, elapsed, cameraPos, orbitTarget,
                   hoverCity, hoverPos2D, updateCalled, lastHover>>

\* the controller is at rest although the page holds a focusTarget
Settled == current = NoTarget /\ focusTarget # NoTarget

\* the page renders again with the same focusTarget: the effect sees its dependency
Rerender ==
    /\ current' = EffectCurrent(focusTarget, effectDep, current)
    /\ effectDep' = focusTarget

\* onPointerOver of pin i -> onHoverCity(p.name, p.pos)
PinOver(i) ==
    /\ LET pin == data.pins[i]
       IN /\ hoverCity' = HoverName(pin.name)
          /\ hoverPos2D' = HoverPos(pin.name, hoverPos2D)
          /\ lastHover' = [op |-> "over", name |-> pin.name, settled |-> Settled]
    /\ Rerender
    /\ UNCHANGED <<route, built, data, dashOffset, elapsed, cameraPos, orbitTarget,
                   focusTarget, updateCalled, selects, disturbed, lastSelect, convTicks>>

\* onPointerOut of a pin -> onHoverCity(null)
PinOut ==
    /\ hoverCity' = HoverName(NoName)
    /\ hoverPos2D' = HoverPos(NoName, hoverPos2D)
    /\ lastHover' = [op |-> "out", name |-> NoName, settled |-> Settled]
    /\ Rerender
    /\ UNCHANGED <<route, built, data, dashOffset, elapsed, cameraPos, orbitTarget,
                   focusTarget, updateCalled, selects, disturbed, lastSelect, convTicks>>

\* Canvas onPointerMove: if (!hoverCity) return; setHoverPos2D({x, y})
PointerMove(xy) ==
    /\ hoverPos2D' = IF hoverCity = NoName THEN hoverPos2D ELSE xy
    /\ Rerender
    /\ UNCHANGED <<route, built, data, dashOffset, elapsed, cameraPos, orbitTarget,
                   focusTarget, hoverCity, updateCalled, selects, disturbed, lastHover,
                   lastSelect, convTicks>>

\* the user drags or zooms the orbit widget: the live camera moves, the target stays
OrbitDrag(p) ==
    /\ cameraPos' = p
    /\ disturbed' = TRUE
    /\ convTicks' = 0
    /\ UNCHANGED <<route, built, data, dashOffset, elapsed, orbitTarget, current, focusTarget,
                   effectDep, hoverCity, hoverPos2D, updateCalled, selects, lastHover,
                   lastSelect>>

\* one rendered frame: the useFrame callbacks of CameraRig and of RoutesWow
FrameTick(delta) ==
    /\ elapsed + delta <= MaxElapsed
    /\ elapsed' = elapsed + delta
    /\ dashOffset' = ScrollDashes(dashOffset, delta)
    /\ LET t == current
       IN IF RigActive(t)
          THEN LET pos == LerpCamera(cameraPos, t, delta)
                   tgt == LerpLookAt(orbitTarget, t, delta)
               IN /\ cameraPos' = pos
                  /\ orbitTarget' = tgt
                  /\ updateCalled' = TRUE
                  /\ current' = IF StopNow(pos, tgt, t) THEN NoTarget ELSE t
                  /\ convTicks' = IF StopNow(pos, tgt, t) THEN 0
                                  ELSE IF delta > 0 THEN convTicks + 1 ELSE convTicks
          ELSE /\ updateCalled' = FALSE
               /\ UNCHANGED <<cameraPos, orbitTarget, current, convTicks>>
    /\ UNCHANGED <<route, built, data, focusTarget, effectDep, hoverCity, hoverPos2D,
                   selects, disturbed, lastHover, lastSelect>>

Next ==
    \/ \E i \in 1..Len(data.pins) : ClickPin(i)
    \/ \E i \in 1..Len(data.pins) : PinOver(i)
    \/ PinOut
    \/ \E xy \in ScreenPoints : PointerMove(xy)
    \/ \E p \in DragPositions : OrbitDrag(p)
    \/ \E delta \in 0..MaxDelta : FrameTick(delta)

Spec == Init /\ [][Next]_vars

(* ---------------- the route build on arbitrary routes ---------------- *)
Routes == UNION {[1..n -> Names] : n \in 0..MaxRouteLen}

RouteInit ==
    /\ route \in Routes
    /\ built = FALSE
    /\ data = [arcs |-> <<>>, pins |-> <<>>, threw |-> FALSE]
    /\ dashOffset = <<>>
    /\ PageInit

\* the useMemo callback of RoutesWow runs on the route
BuildRoute ==
    /\ ~built
    /\ built' = TRUE
    /\ data' = BuildData(route)
    /\ dashOffset' = NoDashes(BuildData(route))
    /\ UNCHANGED <<route, elapsed, cameraPos, orbitTarget, current, focusTarget, effectDep,
                   hoverCity, hoverPos2D, updateCalled, selects, disturbed, lastHover,
                   lastSelect, convTicks>>

RouteNext == BuildRoute
RouteSpec == RouteInit /\ [][RouteNext]_vars

(* ======================= properties ======================= *)
Converging == current # NoTarget
Idle == current = NoTarget
\* the pins of the built route, by name
PinNames == {data.pins[i].name : i \in 1..Len(data.pins)}
\* a step that handles a click on a pin
IsSelect == selects' # selects
\* a step that is a manual drag of the orbit widget
IsDrag ==
    /\ cameraPos' # cameraPos
    /\ cameraPos' \in DragPositions
    /\ disturbed'
    /\ UNCHANGED <<orbitTarget, current, focusTarget, elapsed, updateCalled, selects,
                   hoverCity, hoverPos2D, lastHover>>
\* a step that is a frame tick of positive deltaTime
IsFrameAdvance == elapsed' > elapsed
\* the distance from pos to the target camera position is below epsilon (0.01)
CameraWithinEps(pos, t) == DistSq(pos, t.camPos) < Eps * Eps
\* the distance from tgt to the target look-at point is below epsilon (0.01)
LookAtWithinEps(tgt, t) == DistSq(tgt, t.lookAt) < Eps * Eps
WithinEps(pos, tgt, t) == CameraWithinEps(pos, t) /\ LookAtWithinEps(tgt, t)
\* b lies between a and c
Between(a, b, c) == (a <= b /\ b <= c) \/ (c <= b /\ b <= a)

C3_StopOnlyWhenBothClose ==
    [][/\ (Converging /\ current' = NoTarget) =>
            /\ WithinEps(cameraPos', orbitTarget', current)
            /\ updateCalled'
            /\ UNCHANGED <<focusTarget, hoverCity, hoverPos2D, selects, disturbed>>
       /\ (Converging /\ ~IsSelect /\ ~WithinEps(cameraPos', orbitTarget', current))
            => current' = current]_vars
\* after a frame tick of a convergence that a drag disturbed, the look-at is within
\* epsilon, the camera is not, and the controller is still Converging
C3_Witness ==
    /\ Converging
    /\ convTicks >= 1
    /\ disturbed
    /\ LookAtWithinEps(orbitTarget, current)
    /\ ~CameraWithinEps(cameraPos, current)

UnresolvedAt(r) == {k \in 1..Len(r) : ~Resolved(r[k])}
\* the 0-based pairs (i, i+1) of the route that hold an unresolved name
PairsWithUnresolved(r) == {i \in 0..(Len(r) - 2) : ~Resolved(r[i + 1]) \/ ~Resolved(r[i + 2])}

\* C5 as claimed (route filtering), on the routes of two or more names (those with
\* at least one consecutive pair): the build of a route that holds the unresolved
\* name exactly once, at any position, does not throw and yields exactly one arc
\* fewer than route.length - 1.
C5_AsClaimed ==
    (built /\ Len(route) >= 2 /\ Cardinality(UnresolvedAt(route)) = 1) =>
        /\ ~data.threw
        /\ Len(data.arcs) = (Len(route) - 1) - 1
\* C5 as amended: the build of a route that holds the unresolved name exactly once
\* does not throw and drops exactly the consecutive pairs that hold that name: one
\* arc fewer than route.length - 1 when the name is the first or the last of a
\* route of two or more names, two fewer when it lies in the interior, and none
\* fewer (no arc at all) when it is the whole route.
C5_Filtering ==
    (built /\ Cardinality(UnresolvedAt(route)) = 1) =>
        LET k == CHOOSE k \in UnresolvedAt(route) : TRUE
            n == Len(route)
            dropped == IF n = 1 THEN 0 ELSE IF k = 1 \/ k = n THEN 1 ELSE 2
        IN /\ ~data.threw
           /\ Len(data.arcs) = (n - 1) - dropped
           /\ dropped = Cardinality(PairsWithUnresolved(route))
           /\ \A j \in 1..Len(data.arcs) :
                Resolved(data.arcs[j].from) /\ Resolved(data.arcs[j].to)
\* a route with the unresolved name in its interior has been built: two arcs fewer
C5_Witness ==
    /\ built
    /\ Len(route) = 4
    /\ UnresolvedAt(route) = {2}
    /\ Len(data.arcs) = 1

\* C6 as claimed (degenerate arc): no arc is emitted for a consecutive pair whose two
\* endpoints are the same resolvable name.
C6_AsClaimed ==
    built =>
        \A i \in 0..(Len(route) - 2) :
            (Resolved(route[i + 1]) /\ route[i + 1] = route[i + 2]) =>
                ~\E j \in 1..Len(data.arcs) : data.arcs[j].index = i

\* C7 (comet phase staggering): in the list of arcs the build produces, skipped
\* pairs or not, the phase strictly increases with the position in the list, so
\* the phases are pairwise distinct.
C7_PhasesIncrease ==
    built =>
        /\ \A j \in 1..Len(data.arcs) : \A k \in 1..Len(data.arcs) :
             j < k => data.arcs[j].phase < data.arcs[k].phase
        /\ Cardinality({data.arcs[j].phase : j \in 1..Len(data.arcs)}) = Len(data.arcs)
\* a route with a skipped pair between two emitted arcs has been built
C7_Witness ==
    /\ built
    /\ Len(route) = 4
    /\ Len(data.arcs) = 2
    /\ Cardinality(PairsWithUnresolved(route)) = 1
    /\ data.arcs[1].phase < data.arcs[2].phase

\* C8 (hover exclusivity): the hover state is one name or null: the name of the
\* last hover-enter when no hover-exit followed it, null otherwise; a hover-enter
\* on another pin replaces the name that was held.
C8_HoverExclusive ==
    /\ [](/\ hoverCity \in PinNames \cup {NoName}
          /\ hoverCity = IF lastHover.op = "over" THEN lastHover.name ELSE NoName)
    /\ [][(lastHover'.op = "over" /\ hoverCity # NoName /\ lastHover'.name # hoverCity)
            => (hoverCity' = lastHover'.name /\ hoverCity' # hoverCity)]_vars
\* Montreal is hovered, with the tooltip placed while a pin was hovered
C8_Witness ==
    /\ lastHover.op = "over" /\ lastHover.name = "Montreal"
    /\ hoverCity = "Montreal"
    /\ hoverPos2D # NoPoint

\* C9 (frame effect): of the controller's own actions (all steps but a manual
\* drag), only a frame tick taken while Converging moves the live camera position
\* or the orbit target; a select leaves both as they were and changes only the
\* working target; a frame tick taken while Idle leaves both as they were and does
\* not call controls.update().
C9_OnlyConvergingTickMoves ==
    [][/\ (~IsDrag /\ (cameraPos' # cameraPos \/ orbitTarget' # orbitTarget))
            => (Converging /\ updateCalled' /\ ~IsSelect)
       /\ IsSelect =>
            /\ cameraPos' = cameraPos /\ orbitTarget' = orbitTarget
            /\ current' = focusTarget' /\ current' # current
       /\ (Idle /\ ~IsSelect /\ ~IsDrag) =>
            /\ cameraPos' = cameraPos /\ orbitTarget' = orbitTarget
            /\ (updateCalled' => updateCalled)
            /\ (IsFrameAdvance => ~updateCalled')]_vars
\* frame ticks were taken while Idle and a first select was then handled: the
\* controller is Converging, controls.update() was not called, and the live
\* values are still the initial ones
C9_Witness ==
    /\ elapsed > 0
    /\ selects = 1
    /\ Converging
    /\ ~disturbed
    /\ ~updateCalled
    /\ cameraPos = InitialCamera
    /\ orbitTarget = InitialOrbitTarget

\* C10 (dash scroll): every step lowers each arc's dash offset by exactly 0.42
\* times the time the clock advanced in it (nothing outside a frame tick), so the
\* offset never increases and always equals -0.42 times the total elapsed time,
\* however that time was split into frames.
C10_DashScroll ==
    /\ [][\A i \in DOMAIN dashOffset :
            /\ dashOffset'[i] = dashOffset[i] - (DashRate * (elapsed' - elapsed)) \div 3
            /\ dashOffset'[i] <= dashOffset[i]]_vars
    /\ [](\A i \in DOMAIN dashOffset : dashOffset[i] = -((DashRate * elapsed) \div 3))
\* the clock reached 3 thirds of a second (in one, two or three frames) and both
\* arcs' offsets are at -0.42
C10_Witness ==
    /\ elapsed = 3
    /\ Len(dashOffset) = 2
    /\ \A i \in DOMAIN dashOffset : dashOffset[i] = -DashRate

\* C11 (Idle persists under a stale page target): from the first select on, the
\* page-level focusTarget is never null again, changes only in a select, and is
\* the value the controller was last rendered with; yet a controller that is Idle
\* stays Idle in every step that is not a select: a frame tick, a pin hover event,
\* a pointer move and the page re-render each of them causes, or a manual drag.
C11_IdlePersists ==
    /\ [](selects > 0 => (focusTarget # NoTarget /\ effectDep = focusTarget))
    /\ [][~IsSelect => focusTarget' = focusTarget]_vars
    /\ [][(Idle /\ ~IsSelect) => current' = NoTarget]_vars
\* the only select has converged back to Idle; since then a pin hover event (with
\* its re-render) was handled and a frame tick was taken without calling
\* controls.update(), and the controller is still Idle with the page target set
C11_Witness ==
    /\ selects = 1
    /\ Idle
    /\ focusTarget # NoTarget
    /\ effectDep = focusTarget
    /\ lastHover.settled
    /\ ~updateCalled
    /\ ~disturbed

====
